---- MODULE Spec2Model ----
(***************************************************************************)
(* Model of the publish/subscribe core of StockMarketDemo:                 *)
(*   src/broker.js      Broker     (subscriptions, messageHistory)         *)
(*   src/subscriber.js  Subscriber (receivedMessages, updateCallback)      *)
(*                                                                         *)
(* JavaScript runs the code on one thread, but a Subscriber's update       *)
(* callback is caller-supplied code that runs in the middle of             *)
(* Broker.publish / Broker.subscribe.  It may call back into the broker    *)
(* and it may throw.  The model therefore keeps the call stack: a          *)
(* "publish" frame for a fan-out in progress (the forEach of               *)
(* broker.js:57) and a "callback" frame for an update callback in          *)
(* progress (subscriber.js:40).  Broker operations are called either by    *)
(* the application (empty stack) or by the running callback (top frame).   *)
(*                                                                         *)
(* A JavaScript Set iterates in insertion order; forEach visits entries    *)
(* added during the iteration and does not visit entries deleted before    *)
(* they are reached.  A topic's Set is modelled as a duplicate-free        *)
(* sequence in insertion order and a forEach in progress as the number of  *)
(* entries it has passed.                                                  *)
(***************************************************************************)
EXTENDS Integers, Sequences, FiniteSets, TLC

(* ------------------------------ bounds -------------------------------- *)

\* broker / subscriber API calls made in one behaviour
MaxCalls == 5
\* nesting of publish fan-outs and update callbacks on the call stack
MaxDepth == 4
\* direct receive calls made in one behaviour of SpecHist
MaxRecv == 53

\* broker.publish calls made by the Publishers in one behaviour of SpecPub
MaxPublishes == 4
\* SpecWalk: a price-raising delta is taken only when the price stays within this
MaxRise == 1000

Topics == {"AAPL", "GOOGL"}
Subs == {"sub-1", "sub-2"}
Messages == {1, 2}
Callbacks == {"f", "g"}

\* subscriber.js:10  this.updateCallback = null
NULL == "null"
\* subscriber.js:34  if (this.receivedMessages.length > 50)
HistoryLimit == 50

\* Prices are JavaScript numbers; currentPrice is never rounded, only the price
\* field of a message is (toFixed(2)).  The model counts a price in units of
\* 1/PriceScale dollar and rounds a product down to that unit.
PriceScale == 10000
\* publisher.js:8  this.currentPrice = 100.00
InitialPrice == 100 * PriceScale
\* publisher.js:45  Math.max(0.01, ...)
Floor == PriceScale \div 100
\* units of currentPrice in one cent, the resolution of toFixed(2)
CentUnits == PriceScale \div 100
\* changePercent is counted in units of 1/DeltaScale
DeltaScale == 10000
\* publisher.js:9  this.updateInterval = null (timer ids are positive)
NoTimer == 0
\* one Publisher per stock symbol; a Publisher is named by its symbol
Publishers == Topics
\* publisher.js:44  changePercent = (Math.random() * 10 - 5) / 100, in 1/DeltaScale:
\* Math.random() is in [0, 1), so -5% is drawn and +5% is not
Deltas == {-500, 499}
LiveDeltas == {0}
WalkDeltas == {-500, -250, 0, 499}
\* arguments of setPrice: -0.01, 0, 0.0099, 0.01, 100.00
PriceInputs == {-100, 0, 99, 100, 1000000}

VARIABLES
    subscriptions,      \* broker.js:8   Map topic -> Set of subscribers
    messageHistory,     \* broker.js:10  Map topic -> last message
    receivedMessages,   \* subscriber.js:9   per subscriber: array of records
    updateCallback,     \* subscriber.js:10  per subscriber: callback or null
    stack,              \* call stack: fan-outs and callbacks in progress
    ncalls,             \* number of API calls made so far
    currentPrice,       \* publisher.js:8   per Publisher: current price
    updateInterval,     \* publisher.js:9   per Publisher: timer id or null
    timers,             \* the runtime's active interval timers: [id, pub]
    \* ---- observation (history variables, never read by the operations)
    joined,             \* <<topic, sub>>: subscribe called since last unsubscribe
    lastPub,            \* topic -> message of the most recent publish call
    delivered,          \* per subscriber: every receive(topic, message) call, in order
    ev,                 \* the operation step just taken
    done,               \* the publish call that ended most recently
    cycle,              \* per Publisher: "started" / "stopped" by the last start/stop call
    pubCount,           \* per Publisher: broker.publish calls it has made
    pubEv,              \* the Publisher operation just performed
    \* ---- the demo application
    currentPublisher,   \* app.js:39  the Publisher of the selected symbol
    publisherState,     \* app.js:446 publisherState.textContent
    subscriberCounter,  \* app.js:45  number of subscribers created so far
    subscribers,        \* app.js:46  Map id -> Subscriber (its keys)
    subscriberCreationOrder     \* app.js:72  ids in creation order

pubVars == <<currentPrice, updateInterval, timers, cycle, pubCount, pubEv>>

appVars == <<currentPublisher, publisherState, subscriberCounter, subscribers,
             subscriberCreationOrder>>

vars == <<subscriptions, messageHistory, receivedMessages, updateCallback,
          stack, ncalls, joined, lastPub, delivered, ev, done,
          currentPrice, updateInterval, timers, cycle, pubCount, pubEv,
          currentPublisher, publisherState, subscriberCounter, subscribers,
          subscriberCreationOrder>>

(* ------------------------------ helpers ------------------------------- *)

Range(s) == {s[i] : i \in 1..Len(s)}

\* position of x in the duplicate-free sequence s, 0 when absent
IndexOf(s, x) == IF x \in Range(s) THEN CHOOSE i \in 1..Len(s) : s[i] = x ELSE 0

RemoveAt(s, p) == [i \in 1..(Len(s) - 1) |-> IF i < p THEN s[i] ELSE s[i + 1]]

\* Map.prototype.set
MapSet(m, k, v) == [x \in (DOMAIN m) \cup {k} |-> IF x = k THEN v ELSE m[x]]

\* variant: a new entry is put in front of the others
SetAddFront(s, x) == IF x \in Range(s) THEN s ELSE <<x>> \o s

\* Set.prototype.add: appended in insertion order unless already present
SetAdd(s, x) == IF x \in Range(s) THEN s ELSE Append(s, x)

\* variant: delete leaves the entry in place
SetDeleteNone(s, x) == s

\* variant: delete drops the oldest entry instead of x
SetDeleteFirst(s, x) == IF Len(s) > 0 THEN Tail(s) ELSE s

\* variant: deleting an absent entry drops the newest one
SetDeleteOrLast(s, x) ==
    IF x \in Range(s) THEN RemoveAt(s, IndexOf(s, x))
    ELSE IF Len(s) > 0 THEN SubSeq(s, 1, Len(s) - 1) ELSE s

\* Set.prototype.delete
SetDelete(s, x) == IF x \in Range(s) THEN RemoveAt(s, IndexOf(s, x)) ELSE s

Top == stack[Len(stack)]
Pop(st) == SubSeq(st, 1, Len(st) - 1)

\* who may call the API: the application, or the update callback now running
CanCall == IF Len(stack) = 0 THEN TRUE ELSE Top.kind = "callback"

NoEvent == [op |-> "none"]
NoPublish == [kind |-> "none"]

(* ----------------------------- Subscriber ----------------------------- *)

\* variant: over the limit, the newest record is dropped (pop for shift)
receiveDropNewest(hist, topic, message) ==
    LET pushed == Append(hist, [topic |-> topic, message |-> message])
    IN  IF Len(pushed) > HistoryLimit THEN SubSeq(pushed, 1, HistoryLimit) ELSE pushed

\* variant: nothing is ever evicted
receiveKeepAll(hist, topic, message) ==
    Append(hist, [topic |-> topic, message |-> message])

\* Subscriber.receive, lines 27-36: push the record, keep only the last 50
receive(hist, topic, message) ==
    LET pushed == Append(hist, [topic |-> topic, message |-> message])
    IN  IF Len(pushed) > HistoryLimit THEN Tail(pushed) ELSE pushed

\* Subscriber.getMessageHistory
getMessageHistory(s) == receivedMessages[s]

\* the frame of an update callback invoked by receive (subscriber.js:39-41)
CallbackFrame(s, topic, message, via) ==
    [kind |-> "callback", sub |-> s, topic |-> topic, message |-> message,
     via |-> via, fn |-> updateCallback[s]]

\* variant: a callback already attached is kept (first writer wins)
setUpdateCallbackKeepFirst(s, fn) ==
    /\ CanCall
    /\ ncalls < MaxCalls
    /\ updateCallback' =
           IF updateCallback[s] # NULL THEN updateCallback
           ELSE [updateCallback EXCEPT ![s] = fn]
    /\ ncalls' = ncalls + 1
    /\ ev' = [op |-> "setUpdateCallback", sub |-> s, fn |-> fn]
    /\ UNCHANGED <<subscriptions, messageHistory, receivedMessages, stack,
                   joined, lastPub, delivered, done>>

\* Subscriber.setUpdateCallback
setUpdateCallback(s, fn) ==
    /\ CanCall
    /\ ncalls < MaxCalls
    /\ updateCallback' = [updateCallback EXCEPT ![s] = fn]
    /\ ncalls' = ncalls + 1
    /\ ev' = [op |-> "setUpdateCallback", sub |-> s, fn |-> fn]
    /\ UNCHANGED <<subscriptions, messageHistory, receivedMessages, stack,
                   joined, lastPub, delivered, done>>

(* ------------------------------- Broker ------------------------------- *)

\* variant: the most recent subscriber is left out of the result
getSubscribersButLast(topic) ==
    IF topic \notin DOMAIN subscriptions \/ Len(subscriptions[topic]) = 0 THEN <<>>
    ELSE SubSeq(subscriptions[topic], 1, Len(subscriptions[topic]) - 1)

\* Broker.getSubscribers
getSubscribers(topic) ==
    IF topic \notin DOMAIN subscriptions THEN <<>> ELSE subscriptions[topic]

\* Broker.getAllTopics
getAllTopics == DOMAIN subscriptions

\* a call of Broker.getSubscribers by the application or a running callback:
\* the result is handed to the caller, no field is written
getSubscribersCall(topic) ==
    /\ CanCall
    /\ ncalls < MaxCalls
    /\ ncalls' = ncalls + 1
    /\ ev' = [op |-> "getSubscribers", topic |-> topic, result |-> getSubscribers(topic)]
    /\ UNCHANGED <<subscriptions, messageHistory, receivedMessages, updateCallback,
                   stack, joined, lastPub, delivered, done>>

\* a call of Broker.getAllTopics
getAllTopicsCall ==
    /\ CanCall
    /\ ncalls < MaxCalls
    /\ ncalls' = ncalls + 1
    /\ ev' = [op |-> "getAllTopics", result |-> getAllTopics]
    /\ UNCHANGED <<subscriptions, messageHistory, receivedMessages, updateCallback,
                   stack, joined, lastPub, delivered, done>>

\* variant: with nothing cached for topic, any cached message is replayed
lastMessageAny(topic) ==
    IF topic \in DOMAIN messageHistory THEN {messageHistory[topic]}
    ELSE IF DOMAIN messageHistory # {}
         THEN {messageHistory[CHOOSE t \in DOMAIN messageHistory : TRUE]}
         ELSE {}

\* Broker.subscribe, lines 25-26: the cached message to replay, if there is one
\* (a set of at most one message)
lastMessage(topic) ==
    IF topic \in DOMAIN messageHistory THEN {messageHistory[topic]} ELSE {}

\* a forEach in progress over topic's Set, after s is added to the Set: the
\* iteration itself is unaffected (a new entry lies ahead of it)
AfterAdd(fr, topic, s) ==
    IF fr.kind = "publish" /\ fr.topic = topic /\ s \notin Range(subscriptions[topic])
    THEN [fr EXCEPT !.touched = TRUE]
    ELSE fr

\* variant: the cached message is replayed to every member of topic's set
subscribeReplayToAll(topic, s) ==
    LET withTopic == IF topic \notin DOMAIN subscriptions
                     THEN MapSet(subscriptions, topic, <<>>)
                     ELSE subscriptions
        members == Range(SetAdd(withTopic[topic], s))
        replay == lastMessage(topic) # {}
        msg == CHOOSE m \in lastMessage(topic) : TRUE
        calls == replay /\ updateCallback[s] # NULL
    IN  /\ CanCall
        /\ ncalls < MaxCalls
        /\ calls => Len(stack) < MaxDepth
        /\ subscriptions' = MapSet(withTopic, topic, SetAdd(withTopic[topic], s))
        /\ receivedMessages' =
               [o \in Subs |->
                   IF replay /\ o \in members
                   THEN receive(receivedMessages[o], topic, msg)
                   ELSE receivedMessages[o]]
        /\ delivered' =
               [o \in Subs |->
                   IF replay /\ o \in members
                   THEN Append(delivered[o], <<topic, msg>>)
                   ELSE delivered[o]]
        /\ stack' =
               IF calls
               THEN Append(stack, CallbackFrame(s, topic, msg, "replay"))
               ELSE stack
        /\ ncalls' = ncalls + 1
        /\ joined' = joined \cup {<<topic, s>>}
        /\ ev' = [op |-> "subscribe", topic |-> topic, sub |-> s]
        /\ UNCHANGED <<messageHistory, updateCallback, lastPub, done>>

\* Broker.subscribe (called as Subscriber.subscribe(topic))
subscribe(topic, s) ==
    LET withTopic == IF topic \notin DOMAIN subscriptions
                     THEN MapSet(subscriptions, topic, <<>>)
                     ELSE subscriptions
        replay == lastMessage(topic) # {}
        msg == CHOOSE m \in lastMessage(topic) : TRUE
        calls == replay /\ updateCallback[s] # NULL
    IN  /\ CanCall
        /\ ncalls < MaxCalls
        /\ calls => Len(stack) < MaxDepth
        /\ subscriptions' = MapSet(withTopic, topic, SetAdd(withTopic[topic], s))
        /\ receivedMessages' =
               IF replay
               THEN [receivedMessages EXCEPT
                        ![s] = receive(@, topic, msg)]
               ELSE receivedMessages
        /\ delivered' =
               IF replay
               THEN [delivered EXCEPT
                        ![s] = Append(@, <<topic, msg>>)]
               ELSE delivered
        /\ stack' =
               LET st == [i \in 1..Len(stack) |-> AfterAdd(stack[i], topic, s)]
               IN  IF calls
                   THEN Append(st, CallbackFrame(s, topic, msg, "replay"))
                   ELSE st
        /\ ncalls' = ncalls + 1
        /\ joined' = joined \cup {<<topic, s>>}
        /\ ev' = [op |-> "subscribe", topic |-> topic, sub |-> s]
        /\ UNCHANGED <<messageHistory, updateCallback, lastPub, done>>

\* a forEach in progress over topic's Set, after the entry at position p is deleted
AfterDelete(fr, topic, s, p) ==
    IF fr.kind = "publish" /\ fr.topic = topic /\ p > 0
    THEN [fr EXCEPT !.idx = IF p <= @ THEN @ - 1 ELSE @,
                    !.removed = IF p > fr.idx THEN @ \cup {s} ELSE @,
                    !.touched = TRUE]
    ELSE fr

\* Broker.unsubscribe (called as Subscriber.unsubscribe(topic))
unsubscribe(topic, s) ==
    /\ CanCall
    /\ ncalls < MaxCalls
    /\ IF topic \in DOMAIN subscriptions
       THEN LET p == IndexOf(subscriptions[topic], s)
            IN  /\ subscriptions' =
                       [subscriptions EXCEPT ![topic] = SetDelete(@, s)]
                /\ stack' = [i \in 1..Len(stack) |-> AfterDelete(stack[i], topic, s, p)]
       ELSE UNCHANGED <<subscriptions, stack>>
    /\ ncalls' = ncalls + 1
    /\ joined' = joined \ {<<topic, s>>}
    /\ ev' = [op |-> "unsubscribe", topic |-> topic, sub |-> s]
    /\ UNCHANGED <<messageHistory, receivedMessages, updateCallback, lastPub,
                   delivered, done>>

\* variant: the first message published on a topic is kept
StoreLatestFirstOnly(topic, message) ==
    IF topic \in DOMAIN messageHistory THEN messageHistory
    ELSE MapSet(messageHistory, topic, message)

\* variant: the message is cached only when the topic has subscribers
StoreLatestIfSubscribed(topic, message) ==
    IF topic \in DOMAIN subscriptions /\ Len(subscriptions[topic]) > 0
    THEN MapSet(messageHistory, topic, message)
    ELSE messageHistory

\* variant: the message replaces the cached message of every topic
StoreLatestEverywhere(topic, message) ==
    [t \in (DOMAIN messageHistory) \cup {topic} |-> message]

\* Broker.publish, line 52: this.messageHistory.set(topic, message)
StoreLatest(topic, message) == MapSet(messageHistory, topic, message)

\* Broker.publish, lines 50-56: store the message, then start the forEach
publishCall(topic, message) ==
    /\ CanCall
    /\ Len(stack) + 2 <= MaxDepth
    /\ messageHistory' = StoreLatest(topic, message)
    /\ lastPub' = MapSet(lastPub, topic, message)
    /\ ev' = [op |-> "publish", topic |-> topic, message |-> message]
    /\ IF topic \in DOMAIN subscriptions
       THEN /\ stack' = Append(stack,
                   [kind |-> "publish", topic |-> topic, message |-> message,
                    idx |-> 0,
                    snap |-> Range(subscriptions[topic]),
                    got |-> [x \in Subs |-> 0],
                    removed |-> {}, touched |-> FALSE, later |-> {}])
            /\ done' = done
       ELSE /\ stack' = stack
            /\ done' = [kind |-> "publish", topic |-> topic, message |-> message,
                        snap |-> {}, got |-> [x \in Subs |-> 0], removed |-> {},
                        touched |-> FALSE, outcome |-> "returned", faulted |-> NULL]
    /\ UNCHANGED <<subscriptions, receivedMessages, updateCallback, joined, delivered>>

\* Broker.publish as one of the API calls counted against MaxCalls
publish(topic, message) ==
    /\ ncalls < MaxCalls
    /\ ncalls' = ncalls + 1
    /\ publishCall(topic, message)

\* a forEach in progress over topic's Set, after a publish called later on the
\* same topic has delivered to s (observation only)
AfterLaterDelivery(fr, topic, s) ==
    IF fr.kind = "publish" /\ fr.topic = topic
    THEN [fr EXCEPT !.later = @ \cup {s}]
    ELSE fr

\* one iteration of the forEach of Broker.publish, lines 57-59
Delivery ==
    /\ Len(stack) > 0
    /\ Top.kind = "publish"
    /\ Top.idx < Len(subscriptions[Top.topic])
    /\ LET fr == Top
           s == subscriptions[fr.topic][fr.idx + 1]
           fr2 == [fr EXCEPT !.idx = @ + 1, !.got[s] = @ + 1]
           below == [i \in 1..Len(stack) |->
                        IF i = Len(stack) THEN fr2
                        ELSE AfterLaterDelivery(stack[i], fr.topic, s)]
       IN  /\ receivedMessages' =
                  [receivedMessages EXCEPT ![s] = receive(@, fr.topic, fr.message)]
           /\ stack' =
                  IF updateCallback[s] # NULL
                  THEN Append(below, CallbackFrame(s, fr.topic, fr.message, "fanout"))
                  ELSE below
           /\ ev' = [op |-> "deliver", topic |-> fr.topic, sub |-> s]
    /\ UNCHANGED <<subscriptions, messageHistory, updateCallback, ncalls,
                   joined, lastPub, done>>

\* the iteration, entered in the log of receive calls
deliver ==
    /\ Delivery
    /\ delivered' = [delivered EXCEPT ![ev'.sub] = Append(@, <<Top.topic, Top.message>>)]

\* the iteration in a run without end, where the log is not kept
deliverUnlogged ==
    /\ Delivery
    /\ delivered' = delivered

PublishEnded(fr, outcome, faulted) ==
    [kind |-> "publish", topic |-> fr.topic, message |-> fr.message,
     snap |-> fr.snap, got |-> fr.got, removed |-> fr.removed,
     touched |-> fr.touched,
     outcome |-> outcome, faulted |-> faulted]

\* Broker.publish, lines 60-63: the forEach is exhausted, publish returns
publishReturn ==
    /\ Len(stack) > 0
    /\ Top.kind = "publish"
    /\ Top.idx >= Len(subscriptions[Top.topic])
    /\ stack' = Pop(stack)
    /\ done' = PublishEnded(Top, "returned", NULL)
    /\ ev' = [op |-> "publishReturn", topic |-> Top.topic]
    /\ UNCHANGED <<subscriptions, messageHistory, receivedMessages, updateCallback,
                   ncalls, joined, lastPub, delivered>>

\* the update callback returns: receive logs and returns to its caller
callbackReturn ==
    /\ Len(stack) > 0
    /\ Top.kind = "callback"
    /\ stack' = Pop(stack)
    /\ ev' = [op |-> "callbackReturn", topic |-> Top.topic, sub |-> Top.sub]
    /\ UNCHANGED <<subscriptions, messageHistory, receivedMessages, updateCallback,
                   ncalls, joined, lastPub, delivered, done>>

\* variant: a fault in the replay's callback takes the subscriber out of the set
callbackThrowUnregisters ==
    /\ Len(stack) > 0
    /\ Top.kind = "callback"
    /\ IF Top.via = "fanout"
       THEN /\ stack' = Pop(Pop(stack))
            /\ done' = PublishEnded(stack[Len(stack) - 1], "threw", Top.sub)
       ELSE /\ stack' = Pop(stack)
            /\ done' = done
    /\ subscriptions' =
           IF Top.via = "replay" /\ Top.topic \in DOMAIN subscriptions
           THEN [subscriptions EXCEPT ![Top.topic] = SetDelete(@, Top.sub)]
           ELSE subscriptions
    /\ ev' = [op |-> "callbackThrow", topic |-> Top.topic, sub |-> Top.sub]
    /\ UNCHANGED <<messageHistory, receivedMessages, updateCallback,
                   ncalls, joined, lastPub, delivered>>

\* the update callback throws: nothing in receive, forEach, publish or subscribe
\* catches, so the exception leaves the broker call that invoked receive
callbackThrow ==
    /\ Len(stack) > 0
    /\ Top.kind = "callback"
    /\ IF Top.via = "fanout"
       THEN /\ stack' = Pop(Pop(stack))
            /\ done' = PublishEnded(stack[Len(stack) - 1], "threw", Top.sub)
       ELSE /\ stack' = Pop(stack)
            /\ done' = done
    /\ ev' = [op |-> "callbackThrow", topic |-> Top.topic, sub |-> Top.sub]
    /\ UNCHANGED <<subscriptions, messageHistory, receivedMessages, updateCallback,
                   ncalls, joined, lastPub, delivered>>

\* Subscriber.receive called directly on one Subscriber: the k-th call carries
\* message k, under one topic for a first block of calls and, from any call
\* on, under a second one
receiveCall(s, topic) ==
    LET log == delivered[s]
        message == Len(log) + 1
    IN  /\ Len(stack) = 0
        /\ Len(log) < MaxRecv
        /\ \A o \in Subs \ {s} : delivered[o] = <<>>
        /\ (Len(log) > 0 /\ log[Len(log)][1] # log[1][1]) => topic = log[Len(log)][1]
        /\ receivedMessages' = [receivedMessages EXCEPT ![s] = receive(@, topic, message)]
        /\ delivered' = [delivered EXCEPT ![s] = Append(@, <<topic, message>>)]
        /\ stack' =
               IF updateCallback[s] # NULL
               THEN Append(stack, CallbackFrame(s, topic, message, "direct"))
               ELSE stack
        /\ ev' = [op |-> "receive", topic |-> topic, sub |-> s]
        /\ UNCHANGED <<subscriptions, messageHistory, updateCallback, ncalls,
                       joined, lastPub, done>>

(* ------------------------------ Publisher ----------------------------- *)

Max(a, b) == IF a >= b THEN a ELSE b

\* variant: the new price is not floored
NewPriceNoFloor(p, d) == p + (p * d) \div DeltaScale

\* Publisher.publishUpdate, line 45:
\* Math.max(0.01, this.currentPrice * (1 + changePercent))
NewPrice(p, d) == Max(Floor, p + (p * d) \div DeltaScale)

\* parseFloat(x.toFixed(2)): the price in cents, rounded to the nearest
Cents(p) == (p + CentUnits \div 2) \div CentUnits

\* Publisher.publishUpdate, lines 47-52: the message (change in 1/100 percent;
\* the timestamp is left out, time is not modelled)
Message(sym, p, d) == [symbol |-> sym, price |-> Cents(p), change |-> d]

\* variant: the message is published on another Publisher's topic
UpdateAndPublishElsewhere(P, p, d) ==
    /\ currentPrice' = [currentPrice EXCEPT ![P] = NewPrice(p, d)]
    /\ publishCall(CHOOSE Q \in Publishers : Q # P, Message(P, NewPrice(p, d), d))

\* Publisher.publishUpdate, lines 42-55, run on current price p with random
\* delta d: the new price is stored and one message goes to broker.publish
UpdateAndPublish(P, p, d) ==
    /\ currentPrice' = [currentPrice EXCEPT ![P] = NewPrice(p, d)]
    /\ publishCall(P, Message(P, NewPrice(p, d), d))

\* the publish is one of the calls counted against MaxPublishes
Counted(P) ==
    /\ ncalls < MaxPublishes
    /\ ncalls' = ncalls + 1
    /\ pubCount' = [pubCount EXCEPT ![P] = @ + 1]

\* Publisher.publishUpdate
publishUpdate(P, d) ==
    /\ UpdateAndPublish(P, currentPrice[P], d)
    /\ Counted(P)
    /\ pubEv' = [op |-> "publishUpdate", pub |-> P, delta |-> d,
                 from |-> currentPrice[P]]
    /\ UNCHANGED <<updateInterval, timers, cycle>>

\* Publisher.setPrice: this.currentPrice = price; this.publishUpdate()
setPrice(P, price, d) ==
    /\ UpdateAndPublish(P, price, d)
    /\ Counted(P)
    /\ pubEv' = [op |-> "setPrice", pub |-> P, delta |-> d, price |-> price]
    /\ UNCHANGED <<updateInterval, timers, cycle>>

\* variant: clearInterval cancels every active timer
clearIntervalAll(tms, id) == {}

\* clearInterval(id)
clearInterval(tms, id) == {tm \in tms : tm.id # id}

\* setInterval returns an id no active timer has
FreshId(tms) == CHOOSE n \in 1..(Cardinality(tms) + 1) : \A tm \in tms : tm.id # n

\* variant: startPublishing leaves a running timer running
startClearedNot(P) == timers

\* Publisher.startPublishing, lines 17-19: if (this.updateInterval) clearInterval(...)
startCleared(P) ==
    IF updateInterval[P] # NoTimer
    THEN clearInterval(timers, updateInterval[P])
    ELSE timers

\* variant: startPublishing installs the timer and publishes nothing itself
startPublishingNoInitial(P, d) ==
    LET id == FreshId(startCleared(P))
    IN  /\ Len(stack) = 0
        /\ timers' = startCleared(P) \cup {[id |-> id, pub |-> P]}
        /\ updateInterval' = [updateInterval EXCEPT ![P] = id]
        /\ cycle' = [cycle EXCEPT ![P] = "started"]
        /\ pubEv' = [op |-> "startPublishing", pub |-> P, delta |-> d,
                     restart |-> updateInterval[P] # NoTimer]
        /\ UNCHANGED <<subscriptions, messageHistory, receivedMessages, updateCallback,
                       stack, ncalls, joined, lastPub, delivered, ev, done,
                       currentPrice, pubCount>>

\* Publisher.startPublishing: cancel a running timer, install a new one, then
\* publish the initial update
startPublishing(P, d) ==
    LET id == FreshId(startCleared(P))
    IN  /\ timers' = startCleared(P) \cup {[id |-> id, pub |-> P]}
        /\ updateInterval' = [updateInterval EXCEPT ![P] = id]
        /\ UpdateAndPublish(P, currentPrice[P], d)
        /\ Counted(P)
        /\ cycle' = [cycle EXCEPT ![P] = "started"]
        /\ pubEv' = [op |-> "startPublishing", pub |-> P, delta |-> d,
                     restart |-> updateInterval[P] # NoTimer]

\* variant: stopPublishing forgets the timer without cancelling it
stopClearedNot(P) == timers

\* Publisher.stopPublishing, lines 33-34: if (this.updateInterval) clearInterval(...)
stopCleared(P) ==
    IF updateInterval[P] # NoTimer
    THEN clearInterval(timers, updateInterval[P])
    ELSE timers

\* Publisher.stopPublishing
stopPublishing(P) ==
    /\ Len(stack) = 0
    /\ timers' = stopCleared(P)
    /\ updateInterval' = [updateInterval EXCEPT ![P] = NoTimer]
    /\ cycle' = [cycle EXCEPT ![P] = "stopped"]
    /\ pubEv' = [op |-> "stopPublishing", pub |-> P,
                 running |-> updateInterval[P] # NoTimer]
    /\ UNCHANGED <<subscriptions, messageHistory, receivedMessages, updateCallback,
                   stack, ncalls, joined, lastPub, delivered, ev, done,
                   currentPrice, pubCount>>

\* the runtime fires an active interval timer: the callback of lines 21-23
tick(tm, d) ==
    /\ tm \in timers
    /\ Len(stack) = 0
    /\ UpdateAndPublish(tm.pub, currentPrice[tm.pub], d)
    /\ Counted(tm.pub)
    /\ pubEv' = [op |-> "tick", pub |-> tm.pub, delta |-> d, id |-> tm.id]
    /\ UNCHANGED <<updateInterval, timers, cycle>>

\* Publisher.publishUpdate called over and over on one Publisher, with no bound
\* on the number of calls; a delta that raises the price is taken only while
\* the price stays within MaxRise
walkUpdate(P, d) ==
    /\ \A Q \in Publishers \ {P} : Q \notin DOMAIN lastPub
    /\ NewPrice(currentPrice[P], d) > currentPrice[P]
           => NewPrice(currentPrice[P], d) <= MaxRise
    /\ UpdateAndPublish(P, currentPrice[P], d)
    /\ pubEv' = [op |-> "publishUpdate", pub |-> P, delta |-> d,
                 from |-> currentPrice[P]]
    /\ UNCHANGED <<ncalls, pubCount, updateInterval, timers, cycle>>

\* the timer firing in a run without end: the publish is not counted
tickUncounted(tm, d) ==
    /\ tm \in timers
    /\ Len(stack) = 0
    /\ UpdateAndPublish(tm.pub, currentPrice[tm.pub], d)
    /\ pubEv' = [op |-> "tick", pub |-> tm.pub, delta |-> d, id |-> tm.id]
    /\ UNCHANGED <<ncalls, pubCount, updateInterval, timers, cycle>>

NoPubEvent == [op |-> "none"]

InitPub ==
    /\ currentPrice = [P \in Publishers |-> InitialPrice]
    /\ updateInterval = [P \in Publishers |-> NoTimer]
    /\ timers = {}
    /\ cycle = [P \in Publishers |-> "idle"]
    /\ pubCount = [P \in Publishers |-> 0]
    /\ pubEv = NoPubEvent

(* --------------------------- demo application ------------------------- *)

\* app.js:52  stockSymbols (the model keeps the symbols of Topics)
stockSymbols == Topics

\* the subscriber behind the "latest update" panel (new Subscriber('ui-display', ...))
uiSubscriber == "ui-display"

\* the callbacks the application attaches: they write to the page only
updateSubscriberCard == "updateSubscriberCard"
showLatestUpdate == "showLatestUpdate"

\* app.js:98  `sub-${subscriberCounter}`
SubscriberIds == <<"sub-1", "sub-2", "sub-3", "sub-4", "sub-5", "sub-6", "sub-7", "sub-8">>
subscriberId(n) == SubscriberIds[n]

\* the objects an event handler works on
World ==
    [subscriptions |-> subscriptions, messageHistory |-> messageHistory,
     receivedMessages |-> receivedMessages, currentPrice |-> currentPrice,
     updateInterval |-> updateInterval, timers |-> timers]

\* the handler leaves the objects as w
Leaves(w) ==
    /\ subscriptions' = w.subscriptions
    /\ messageHistory' = w.messageHistory
    /\ receivedMessages' = w.receivedMessages
    /\ currentPrice' = w.currentPrice
    /\ updateInterval' = w.updateInterval
    /\ timers' = w.timers

\* Broker.subscribe run to its end: register, then replay the cached message
subscribeIn(w, topic, s) ==
    LET set == IF topic \in DOMAIN w.subscriptions THEN w.subscriptions[topic] ELSE <<>>
    IN  [w EXCEPT
            !.subscriptions = MapSet(@, topic, SetAdd(set, s)),
            !.receivedMessages =
                IF topic \in DOMAIN w.messageHistory
                THEN [@ EXCEPT ![s] = receive(@, topic, w.messageHistory[topic])]
                ELSE @]

\* Broker.unsubscribe run to its end
unsubscribeIn(w, topic, s) ==
    IF topic \in DOMAIN w.subscriptions
    THEN [w EXCEPT !.subscriptions[topic] = SetDelete(@, s)]
    ELSE w

\* variant: s is taken out of one symbol's set only
unsubscribeFromOne(w, s) == unsubscribeIn(w, CHOOSE symbol \in stockSymbols : TRUE, s)

\* stockSymbols.forEach(symbol => s.unsubscribe(symbol))
unsubscribeFromAll(w, s) ==
    [w EXCEPT !.subscriptions =
        [t \in DOMAIN @ |-> IF t \in stockSymbols THEN SetDelete(@[t], s) ELSE @[t]]]

\* Broker.publish run to its end: store, then receive on every member
publishIn(w, topic, message) ==
    [w EXCEPT
        !.messageHistory = MapSet(@, topic, message),
        !.receivedMessages =
            IF topic \in DOMAIN w.subscriptions
            THEN [s \in DOMAIN @ |->
                     IF s \in Range(w.subscriptions[topic])
                     THEN receive(@[s], topic, message)
                     ELSE @[s]]
            ELSE @]

\* Publisher.publishUpdate run to its end
publishUpdateIn(w, P, d) ==
    LET p == NewPrice(w.currentPrice[P], d)
    IN  publishIn([w EXCEPT !.currentPrice[P] = p], P, Message(P, p, d))

\* variant: the timer is forgotten without being cancelled
clearedInNot(w, P) == w.timers

\* if (this.updateInterval) clearInterval(this.updateInterval)
clearedIn(w, P) ==
    IF w.updateInterval[P] # NoTimer
    THEN clearInterval(w.timers, w.updateInterval[P])
    ELSE w.timers

\* Publisher.startPublishing run to its end
startPublishingIn(w, P, d) ==
    LET id == FreshId(clearedIn(w, P))
    IN  publishUpdateIn([w EXCEPT
                            !.timers = clearedIn(w, P) \cup {[id |-> id, pub |-> P]},
                            !.updateInterval[P] = id],
                        P, d)

\* Publisher.stopPublishing
stopPublishingIn(w, P) ==
    [w EXCEPT !.timers = clearedIn(w, P), !.updateInterval[P] = NoTimer]

\* updatePublisherStatus: the panel follows the Publisher P only
updatePublisherStatus(w, P) == subscribeIn(unsubscribeFromAll(w, uiSubscriber), P, uiSubscriber)

\* an event of the page, counted against MaxCalls
Event(name) ==
    /\ ncalls < MaxCalls
    /\ ncalls' = ncalls + 1
    /\ ev' = [op |-> name]
    /\ UNCHANGED <<stack, joined, lastPub, delivered, done, cycle, pubCount, pubEv>>

\* click on Start, app.js:444-451
clickStart(d) ==
    /\ Event("clickStart")
    /\ Leaves(updatePublisherStatus(startPublishingIn(World, currentPublisher, d),
                                    currentPublisher))
    /\ publisherState' = "Publishing"
    /\ UNCHANGED <<updateCallback, currentPublisher, subscriberCounter, subscribers,
                   subscriberCreationOrder>>

\* click on Stop, app.js:453-459
clickStop ==
    /\ Event("clickStop")
    /\ Leaves(stopPublishingIn(World, currentPublisher))
    /\ publisherState' = "Stopped"
    /\ UNCHANGED <<updateCallback, currentPublisher, subscriberCounter, subscribers,
                   subscriberCreationOrder>>

\* another stock symbol is selected, app.js:461-472
changeSymbol(symbol, d) ==
    LET w == updatePublisherStatus(stopPublishingIn(World, currentPublisher), symbol)
    IN  /\ Event("changeSymbol")
        /\ currentPublisher' = symbol
        /\ Leaves(IF publisherState = "Publishing"
                  THEN startPublishingIn(w, symbol, d)
                  ELSE w)
        /\ UNCHANGED <<updateCallback, publisherState, subscriberCounter, subscribers,
                       subscriberCreationOrder>>

\* an active timer fires: publishUpdate of its Publisher
timerFires(tm, d) ==
    /\ tm \in timers
    /\ Event("timer")
    /\ Leaves(publishUpdateIn(World, tm.pub, d))
    /\ UNCHANGED <<updateCallback, appVars>>

\* handleAddSubscriber, app.js:82-146; the symbol select shows the current symbol
handleAddSubscriber ==
    LET id == subscriberId(subscriberCounter + 1)
        created == [World EXCEPT !.receivedMessages = MapSet(@, id, <<>>)]
    IN  /\ Event("addSubscriber")
        /\ subscriberCounter' = subscriberCounter + 1
        /\ subscribers' = subscribers \cup {id}
        /\ subscriberCreationOrder' = Append(subscriberCreationOrder, id)
        /\ updateCallback' = MapSet(updateCallback, id, updateSubscriberCard)
        /\ Leaves(subscribeIn(created, currentPublisher, id))
        /\ UNCHANGED <<currentPublisher, publisherState>>

\* handleRemoveSubscriber, app.js:155-205
handleRemoveSubscriber ==
    /\ Event("removeSubscriber")
    /\ IF subscribers = {} \/ Len(subscriberCreationOrder) = 0
       THEN UNCHANGED <<subscriptions, messageHistory, receivedMessages, currentPrice,
                        updateInterval, timers, subscribers, subscriberCreationOrder>>
       ELSE LET lastSubscriberId == subscriberCreationOrder[Len(subscriberCreationOrder)]
            IN  IF lastSubscriberId \notin subscribers
                THEN /\ subscriberCreationOrder' = Pop(subscriberCreationOrder)
                     /\ UNCHANGED <<subscriptions, messageHistory, receivedMessages,
                                    currentPrice, updateInterval, timers, subscribers>>
                ELSE /\ Leaves(unsubscribeFromAll(World, lastSubscriberId))
                     /\ subscribers' = subscribers \ {lastSubscriberId}
                     /\ subscriberCreationOrder' = Pop(subscriberCreationOrder)
    /\ UNCHANGED <<updateCallback, currentPublisher, publisherState, subscriberCounter>>

\* handleSubscribe, app.js:212-229, with the subscriber and topic selected
handleSubscribe(id, topic) ==
    /\ id \in subscribers
    /\ Event("subscribe")
    /\ Leaves(subscribeIn(World, topic, id))
    /\ UNCHANGED <<updateCallback, appVars>>

\* handleUnsubscribe, app.js:236-247
handleUnsubscribe(id, topic) ==
    /\ id \in subscribers
    /\ Event("unsubscribe")
    /\ Leaves(unsubscribeIn(World, topic, id))
    /\ UNCHANGED <<updateCallback, appVars>>

\* app.js:38-72: before the page is loaded
InitApp ==
    /\ currentPublisher = "AAPL"
    /\ publisherState = "Stopped"
    /\ subscriberCounter = 0
    /\ subscribers = {}
    /\ subscriberCreationOrder = <<>>

(* --------------------------- specifications --------------------------- *)

Init ==
    /\ subscriptions = [t \in {} |-> <<>>]
    /\ messageHistory = [t \in {} |-> 0]
    /\ receivedMessages = [s \in Subs |-> <<>>]
    /\ updateCallback = [s \in Subs |-> NULL]
    /\ stack = <<>>
    /\ ncalls = 0
    /\ joined = {}
    /\ lastPub = [t \in {} |-> 0]
    /\ delivered = [s \in Subs |-> <<>>]
    /\ ev = NoEvent
    /\ done = NoPublish
    /\ InitPub
    /\ InitApp

Next ==
    \/ \E t \in Topics, s \in Subs : subscribe(t, s) /\ UNCHANGED <<pubVars, appVars>>
    \/ \E t \in Topics, s \in Subs : unsubscribe(t, s) /\ UNCHANGED <<pubVars, appVars>>
    \/ \E t \in Topics, m \in Messages : publish(t, m) /\ UNCHANGED <<pubVars, appVars>>
    \/ \E s \in Subs, fn \in Callbacks \cup {NULL} :
           setUpdateCallback(s, fn) /\ UNCHANGED <<pubVars, appVars>>
    \/ deliver /\ UNCHANGED <<pubVars, appVars>>
    \/ publishReturn /\ UNCHANGED <<pubVars, appVars>>
    \/ callbackReturn /\ UNCHANGED <<pubVars, appVars>>
    \/ callbackThrow /\ UNCHANGED <<pubVars, appVars>>

Spec == Init /\ [][Next]_vars

\* The broker and the Subscribers with the read operations of the broker among
\* the calls.
NextRead ==
    \/ Next
    \/ \E t \in Topics : getSubscribersCall(t) /\ UNCHANGED <<pubVars, appVars>>
    \/ getAllTopicsCall /\ UNCHANGED <<pubVars, appVars>>

SpecRead == Init /\ [][NextRead]_vars

\* A Subscriber on its own, with or without an update callback attached,
\* receiving more messages than its history keeps.
InitHist ==
    /\ subscriptions = [t \in {} |-> <<>>]
    /\ messageHistory = [t \in {} |-> 0]
    /\ receivedMessages = [s \in Subs |-> <<>>]
    /\ updateCallback \in [Subs -> Callbacks \cup {NULL}]
    /\ stack = <<>>
    /\ ncalls = 0
    /\ joined = {}
    /\ lastPub = [t \in {} |-> 0]
    /\ delivered = [s \in Subs |-> <<>>]
    /\ ev = NoEvent
    /\ done = NoPublish
    /\ InitPub
    /\ InitApp

NextHist ==
    \/ \E s \in Subs, t \in Topics : receiveCall(s, t) /\ UNCHANGED <<pubVars, appVars>>
    \/ callbackReturn /\ UNCHANGED <<pubVars, appVars>>
    \/ callbackThrow /\ UNCHANGED <<pubVars, appVars>>

SpecHist == InitHist /\ [][NextHist]_vars

\* The Publishers and the broker with nobody subscribed: start, stop, timer
\* ticks, direct publishUpdate and setPrice calls.
NextPub ==
    \/ \E P \in Publishers, d \in Deltas : startPublishing(P, d) /\ UNCHANGED appVars
    \/ \E P \in Publishers : stopPublishing(P) /\ UNCHANGED appVars
    \/ \E tm \in timers, d \in Deltas : tick(tm, d) /\ UNCHANGED appVars
    \/ \E P \in Publishers, d \in Deltas : publishUpdate(P, d) /\ UNCHANGED appVars
    \/ \E P \in Publishers, price \in PriceInputs, d \in Deltas :
           setPrice(P, price, d) /\ UNCHANGED appVars

SpecPub == Init /\ [][NextPub]_vars

\* One Publisher's cycle running without end: subscribers join and attach
\* callbacks, one Publisher is started and never stopped, its timer keeps
\* firing and every fan-out runs to its end.  JavaScript runs a started call
\* to completion and the runtime keeps firing an active interval timer.
NoneStarted == \A P \in Publishers : cycle[P] = "idle"

Completion ==
    \/ deliverUnlogged /\ UNCHANGED <<pubVars, appVars>>
    \/ publishReturn /\ UNCHANGED <<pubVars, appVars>>
    \/ callbackReturn /\ UNCHANGED <<pubVars, appVars>>
    \/ callbackThrow /\ UNCHANGED <<pubVars, appVars>>

TimerFires(P) ==
    \E tm \in timers, d \in LiveDeltas :
        tm.pub = P /\ tickUncounted(tm, d) /\ UNCHANGED appVars

NextLive ==
    \/ \E t \in Topics, s \in Subs :
           NoneStarted /\ subscribe(t, s) /\ UNCHANGED <<pubVars, appVars>>
    \/ \E s \in Subs, fn \in Callbacks :
           NoneStarted /\ setUpdateCallback(s, fn) /\ UNCHANGED <<pubVars, appVars>>
    \/ \E P \in Publishers, d \in LiveDeltas :
           NoneStarted /\ startPublishing(P, d) /\ UNCHANGED appVars
    \/ \E P \in Publishers : TimerFires(P)
    \/ Completion

SpecLive ==
    /\ Init
    /\ [][NextLive]_vars
    /\ WF_vars(Completion)
    /\ \A P \in Publishers : WF_vars(TimerFires(P))

\* One Publisher's price under publishUpdate alone, from the initial price on.
NextWalk == \E P \in Publishers, d \in WalkDeltas : walkUpdate(P, d) /\ UNCHANGED appVars

SpecWalk == Init /\ [][NextWalk]_vars

\* The demo application after initializeApp: the page's events and the timers.
\* The text of the state label comes from the page's markup.
InitDemo ==
    /\ currentPublisher = "AAPL"
    /\ publisherState \in {"Stopped", "Publishing"}
    /\ subscriberCounter = 0
    /\ subscribers = {}
    /\ subscriberCreationOrder = <<>>
    /\ subscriptions = [t \in {currentPublisher} |-> <<uiSubscriber>>]
    /\ messageHistory = [t \in {} |-> 0]
    /\ receivedMessages = [s \in {uiSubscriber} |-> <<>>]
    /\ updateCallback = [s \in {uiSubscriber} |-> showLatestUpdate]
    /\ stack = <<>>
    /\ ncalls = 0
    /\ joined = {}
    /\ lastPub = [t \in {} |-> 0]
    /\ delivered = [s \in Subs |-> <<>>]
    /\ ev = NoEvent
    /\ done = NoPublish
    /\ InitPub

NextApp ==
    \/ \E d \in Deltas : clickStart(d)
    \/ clickStop
    \/ \E symbol \in stockSymbols, d \in Deltas : changeSymbol(symbol, d)
    \/ \E tm \in timers, d \in Deltas : timerFires(tm, d)
    \/ handleAddSubscriber
    \/ handleRemoveSubscriber
    \/ \E id \in subscribers, topic \in stockSymbols : handleSubscribe(id, topic)
    \/ \E id \in subscribers, topic \in stockSymbols : handleUnsubscribe(id, topic)

SpecApp == InitDemo /\ [][NextApp]_vars

(* ------------------------------ claims -------------------------------- *)

\* the publish calls still fanning out, and the one that ended last
Frames == {stack[i] : i \in {j \in 1..Len(stack) : stack[j].kind = "publish"}}
Ended == IF done.kind = "publish" THEN {done} ELSE {}

Last(seq) == seq[Len(seq)]

\* C1: every subscriber in T's set when publish(T, m) is called has receive(T, m)
\* invoked exactly once by that publish call.
C1_FanOutCompleteness ==
    \A p \in Ended : \A s \in p.snap : p.got[s] = 1

\* The same, for a publish call that returned and during which no callback
\* subscribed to or unsubscribed from T.
FanOutCompleteUndisturbed ==
    \A p \in Ended :
        (p.outcome = "returned" /\ ~p.touched) =>
            \A s \in Subs : p.got[s] = (IF s \in p.snap THEN 1 ELSE 0)

\* C2: once publish(T, _) has been called, subscribe(T, s) invokes
\* s.receive(T, m) exactly once before it returns, m being the message of the
\* most recent publish call on T.
C2_LateJoinReplay ==
    [][(ev'.op = "subscribe" /\ ev'.topic \in DOMAIN lastPub) =>
          LET s == ev'.sub
              T == ev'.topic
          IN  /\ delivered' = [delivered EXCEPT ![s] = Append(@, <<T, lastPub[T]>>)]
              /\ Last(receivedMessages'[s]) = [topic |-> T, message |-> lastPub[T]]
      ]_vars

\* a subscriber joins a topic whose publishes found no subscriber, and has been
\* handed the message 2 as its only record
C2_Witness ==
    /\ ev.op = "subscribe"
    /\ ev.topic \in DOMAIN lastPub
    /\ done.kind = "publish" /\ done.topic = ev.topic /\ done.snap = {}
    /\ delivered[ev.sub] = <<(<<ev.topic, 2>>)>>
    /\ ncalls >= 3

\* C3: subscribe(T, s) on a topic never published to invokes no receive, on s
\* or on anyone, whatever was published on other topics.
C3_NoReplayWithoutHistory ==
    [][(ev'.op = "subscribe" /\ ev'.topic \notin DOMAIN lastPub) =>
          /\ delivered' = delivered
          /\ receivedMessages' = receivedMessages
          /\ Len(stack') = Len(stack)
      ]_vars

\* a subscriber joined a topic never published to while another topic has a
\* cached message, and has received nothing
C3_Witness ==
    /\ ev.op = "subscribe"
    /\ ev.topic \notin DOMAIN lastPub
    /\ DOMAIN lastPub # {}
    /\ delivered[ev.sub] = <<>>

\* C4: a fan-out delivers receive(T, m) to s only while s has subscribed to T
\* and not unsubscribed since; after unsubscribe(T, s) no publish reaches s
\* until s subscribes again.
C4_NoDeliveryAfterUnsubscribe ==
    ev.op = "deliver" => <<ev.topic, ev.sub>> \in joined

\* s received T's first publish, unsubscribed, and a later publish on T
\* returned without reaching s
C4_Witness ==
    \E s \in Subs :
        /\ done.kind = "publish" /\ done.outcome = "returned"
        /\ ev.op = "publishReturn"
        /\ done.topic \in DOMAIN subscriptions
        /\ <<done.topic, s>> \notin joined
        /\ done.got[s] = 0
        /\ Len(delivered[s]) = 1
        /\ delivered[s][1][1] = done.topic

\* C5: s is in T's subscriber set if and only if s has called subscribe(T) and
\* has not called unsubscribe(T) since; nothing else adds or removes a member.
C5_RegistryInvariant ==
    \A t \in Topics, s \in Subs :
        (t \in DOMAIN subscriptions /\ s \in Range(subscriptions[t]))
            <=> <<t, s>> \in joined

\* a subscriber that had received messages has just left a topic another
\* subscriber stays on
C5_Witness ==
    /\ ev.op = "unsubscribe"
    /\ ev.topic \in DOMAIN subscriptions
    /\ <<ev.topic, ev.sub>> \notin joined
    /\ delivered[ev.sub] # <<>>
    /\ \E o \in Subs \ {ev.sub} : <<ev.topic, o>> \in joined

\* C6: the cache has no entry for a topic never published to and otherwise
\* holds the message of the most recent publish call on it, subscribers or not.
C6_CacheInvariant ==
    /\ DOMAIN messageHistory = DOMAIN lastPub
    /\ \A t \in DOMAIN lastPub : messageHistory[t] = lastPub[t]

\* a second message was published on a topic nobody ever subscribed to, and a
\* subscribe or unsubscribe on another topic followed
C6_Witness ==
    \E t \in DOMAIN lastPub :
        /\ t \notin DOMAIN subscriptions
        /\ messageHistory[t] = 2
        /\ ncalls >= 3
        /\ ev.op \in {"subscribe", "unsubscribe"}
        /\ ev.topic # t

\* C7: when a subscriber's callback throws during the fan-out of publish(T, m),
\* every other subscriber in T's set still receives receive(T, m) exactly once.
C7_FaultIsolation ==
    \A p \in Ended :
        p.outcome = "threw" => \A s \in p.snap \ {p.faulted} : p.got[s] = 1

\* C8: a subscriber added to T's set by a callback during the fan-out of
\* publish(T, m), and not in the set when publish was called, is not delivered
\* to by that fan-out.
C8_SnapshotOnSubscribe ==
    \A p \in Frames \cup Ended : \A x \in Subs \ p.snap : p.got[x] = 0

\* C9: a subscriber in T's set when publish(T, m) was called and unsubscribed
\* by a callback before the fan-out reached it still receives receive(T, m)
\* exactly once from that publish.
C9_SnapshotOnUnsubscribe ==
    \A p \in Ended :
        p.outcome = "returned" => \A y \in p.snap \cap p.removed : p.got[y] = 1

\* C10: after N receive calls a Subscriber's history holds min(N, 50) records:
\* the most recent ones, in the order received.
C10_HistoryContent ==
    \A s \in Subs :
        LET log == delivered[s]
            h == getMessageHistory(s)
            n == Len(log)
            k == IF n < HistoryLimit THEN n ELSE HistoryLimit
        IN  /\ Len(h) = k
            /\ \A i \in 1..k :
                   h[i] = [topic |-> log[n - k + i][1], message |-> log[n - k + i][2]]

\* more than 50 messages were received: the history starts at the 50th most
\* recent one
C10_Witness ==
    \E s \in Subs :
        /\ Len(delivered[s]) > HistoryLimit + 1
        /\ Len(receivedMessages[s]) = HistoryLimit
        /\ receivedMessages[s][1].message = Len(delivered[s]) - HistoryLimit + 1
        /\ receivedMessages[s][1].topic # receivedMessages[s][HistoryLimit].topic

\* C11: a Subscriber's history never holds more than 50 records, after a
\* receive returns and while its update callback runs.
C11_HistoryBound ==
    \A s \in Subs : Len(getMessageHistory(s)) <= HistoryLimit

\* the update callback of a subscriber that was sent more than 50 messages is
\* running, with 50 records in the history
C11_Witness ==
    /\ Len(stack) > 0
    /\ stack[Len(stack)].kind = "callback"
    /\ Len(delivered[stack[Len(stack)].sub]) > HistoryLimit
    /\ Len(receivedMessages[stack[Len(stack)].sub]) = HistoryLimit

\* the active timers of Publisher P
TimersOf(P) == {tm \in timers : tm.pub = P}

\* C12: once stopPublishing has returned on a Publisher, no timer tick of that
\* Publisher fires until startPublishing is called again.
C12_Cancellation ==
    \A P \in Publishers :
        cycle[P] = "stopped" =>
            /\ TimersOf(P) = {}
            /\ pubEv.op = "tick" => pubEv.pub # P

\* a Publisher that was running and had published from a tick was stopped
C12_Witness ==
    /\ pubEv.op = "stopPublishing"
    /\ pubEv.running
    /\ pubCount[pubEv.pub] >= 2
    /\ \E Q \in Publishers \ {pubEv.pub} : TimersOf(Q) # {}

\* C13: startPublishing makes exactly one publish itself and every timer tick
\* makes one; stopPublishing makes none and leaves the Publisher no timer, so
\* start followed by stop yields one publish and none afterwards.
C13_StartPublishesOnce ==
    [][LET P == pubEv'.pub
       IN  /\ pubEv'.op \in {"startPublishing", "tick"} =>
                  /\ pubCount' = [pubCount EXCEPT ![P] = @ + 1]
                  /\ ev'.op = "publish" /\ ev'.topic = P
                  /\ messageHistory' = MapSet(messageHistory, P, ev'.message)
           /\ pubEv'.op = "stopPublishing" =>
                  /\ pubCount' = pubCount
                  /\ messageHistory' = messageHistory
                  /\ {tm \in timers' : tm.pub = P} = {}
      ]_vars

\* a Publisher was started and stopped before any tick: one publish was made
C13_Witness ==
    /\ pubEv.op = "stopPublishing"
    /\ pubEv.running
    /\ pubCount[pubEv.pub] = 1
    /\ ncalls = 1
    /\ timers = {}

\* C14: a Publisher has at most one active timer, the one updateInterval
\* names, and none once stopped; a restart cancels the timer it replaces.
C14_SingleCycle ==
    \A P \in Publishers :
        /\ Cardinality(TimersOf(P)) <= 1
        /\ updateInterval[P] = NoTimer => TimersOf(P) = {}
        /\ updateInterval[P] # NoTimer =>
               TimersOf(P) = {[id |-> updateInterval[P], pub |-> P]}
        /\ cycle[P] # "started" => TimersOf(P) = {}

\* startPublishing was called on a Publisher that was running
C14_Witness ==
    /\ pubEv.op = "startPublishing"
    /\ pubEv.restart
    /\ Cardinality(TimersOf(pubEv.pub)) = 1

\* C15: from the initial price on, under publishUpdate with any deltas, the
\* current price and the price of every published message are at least 0.01.
C15_PriceFloor ==
    /\ \A P \in Publishers : currentPrice[P] >= Floor
    /\ \A t \in DOMAIN messageHistory : messageHistory[t].price >= Cents(Floor)
    /\ ev.op = "publish" => ev.message.price >= Cents(Floor)

\* a publishUpdate whose product fell below 0.01 left the price at 0.01
C15_Witness ==
    /\ pubEv.op = "publishUpdate"
    /\ pubEv.from + (pubEv.from * pubEv.delta) \div DeltaScale < Floor
    /\ currentPrice[pubEv.pub] = Floor
    /\ messageHistory[pubEv.pub].price = 1

\* C16: setPrice(p) with p below 0.01 publishes a message of price 0.01 and
\* leaves the current price at 0.01.
C16_SetPriceClamped ==
    (pubEv.op = "setPrice" /\ pubEv.price < Floor) =>
        /\ currentPrice[pubEv.pub] = Floor
        /\ messageHistory[pubEv.pub].price = Cents(Floor)

\* C17: setPrice(p) with p >= 0.01 publishes a message whose price is p
\* rounded to 2 decimals, whatever the random delta.
C17_SetPriceDeterministic ==
    (pubEv.op = "setPrice" /\ pubEv.price >= Floor) =>
        messageHistory[pubEv.pub].price = Cents(pubEv.price)

\* C18: unsubscribe(T, s) with s not in T's set, or T without registry entry,
\* changes nothing: registry and its known topics, cache, histories, call
\* stack; whenever called, it leaves s out of T's set and creates no entry.
C18_UnsubscribeNoOp ==
    [][ev'.op = "unsubscribe" =>
          LET T == ev'.topic
              s == ev'.sub
          IN  /\ DOMAIN subscriptions' = DOMAIN subscriptions
              /\ T \in DOMAIN subscriptions' => s \notin Range(subscriptions'[T])
              /\ s \notin Range(getSubscribers(T)) =>
                     /\ subscriptions' = subscriptions
                     /\ messageHistory' = messageHistory
                     /\ receivedMessages' = receivedMessages
                     /\ delivered' = delivered
                     /\ stack' = stack
      ]_vars

\* unsubscribe was called on a topic without registry entry while another
\* topic has subscribers and a cached message
C18_Witness ==
    /\ ev.op = "unsubscribe"
    /\ ev.topic \notin DOMAIN subscriptions
    /\ \E t \in DOMAIN subscriptions : Len(subscriptions[t]) > 0
    /\ DOMAIN messageHistory # {}

\* a second subscribe(T, s) right after subscribe(T, s)
Resubscribe == ev.op = "subscribe" /\ ev' = ev

\* C19: subscribe(T, s) followed by subscribe(T, s) leaves registry, cache and
\* s's history and callback invocations as a single subscribe(T, s) does.
C19_ResubscribeIdempotent ==
    [][Resubscribe =>
          /\ subscriptions' = subscriptions
          /\ messageHistory' = messageHistory
          /\ receivedMessages' = receivedMessages
          /\ delivered' = delivered
          /\ Len(stack') = Len(stack)
      ]_vars

\* What the second subscribe does: registry and cache stay as they are, and
\* T's cached message, when there is one, is replayed to s once more (one more
\* receive, so one more history record and callback invocation).
ResubscribeReplays ==
    [][Resubscribe =>
          LET T == ev.topic
              s == ev.sub
          IN  /\ subscriptions' = subscriptions
              /\ messageHistory' = messageHistory
              /\ updateCallback' = updateCallback
              /\ IF T \in DOMAIN messageHistory
                 THEN /\ delivered' =
                             [delivered EXCEPT ![s] = Append(@, <<T, messageHistory[T]>>)]
                      /\ receivedMessages' =
                             [receivedMessages EXCEPT
                                 ![s] = Append(@, [topic |-> T, message |-> messageHistory[T]])]
                      /\ Len(stack') = Len(stack) + (IF updateCallback[s] # NULL THEN 1 ELSE 0)
                 ELSE /\ delivered' = delivered
                      /\ receivedMessages' = receivedMessages
                      /\ stack' = stack
      ]_vars

\* getSubscribers(T) lists no identity twice
NoDuplicateSubscribers ==
    \A t \in Topics :
        Cardinality(Range(getSubscribers(t))) = Len(getSubscribers(t))

\* C20: a subscriber set holds no identity twice, and a publish delivers to no
\* identity more than once.
C20_NoDuplicates ==
    /\ NoDuplicateSubscribers
    /\ \A p \in Frames \cup Ended : \A s \in Subs : p.got[s] <= 1

\* C21: subscribe(T, s) on a topic with a cached message invokes receive once,
\* on s only, with the cached message: no other subscriber, member of T's set
\* or not, gets a receive or a callback from it, and the cache is unchanged.
C21_ReplayTargeted ==
    [][(ev'.op = "subscribe" /\ ev'.topic \in DOMAIN messageHistory) =>
          LET s == ev'.sub
              T == ev'.topic
          IN  /\ \A o \in Subs \ {s} :
                     /\ delivered'[o] = delivered[o]
                     /\ receivedMessages'[o] = receivedMessages[o]
              /\ Len(delivered'[s]) = Len(delivered[s]) + 1
              /\ Last(delivered'[s]) = <<T, messageHistory[T]>>
              /\ messageHistory' = messageHistory
              /\ Len(stack') > Len(stack) =>
                     /\ Len(stack') = Len(stack) + 1
                     /\ Last(stack').kind = "callback"
                     /\ Last(stack').sub = s
      ]_vars

\* s joined a topic that another subscriber is registered on and that has a
\* cached message: s holds the replayed message, the other the fan-out's only
C21_Witness ==
    /\ ev.op = "subscribe"
    /\ ev.topic \in DOMAIN messageHistory
    /\ delivered[ev.sub] = <<(<<ev.topic, messageHistory[ev.topic]>>)>>
    /\ \E o \in Subs \ {ev.sub} :
           /\ <<ev.topic, o>> \in joined
           /\ delivered[o] = <<(<<ev.topic, messageHistory[ev.topic]>>)>>

\* C22: publish(T, m) on a topic with no subscribers invokes no receive, stores
\* m as T's latest message and leaves getSubscribers(T) empty; the publish
\* call, in progress or ended, has delivered to nobody.
C22_PublishNoSubscribers ==
    [][/\ (ev'.op = "publish" /\ Len(getSubscribers(ev'.topic)) = 0) =>
              /\ delivered' = delivered
              /\ receivedMessages' = receivedMessages
              /\ ev'.topic \in DOMAIN messageHistory'
              /\ messageHistory'[ev'.topic] = ev'.message
              /\ subscriptions' = subscriptions
              /\ Len(stack') > Len(stack) => Last(stack').kind = "publish"
       /\ \A p \in (Frames \cup Ended)' :
              p.snap = {} => \A s \in Subs : p.got[s] = 0
      ]_vars

\* a publish on a topic whose only subscriber had left went through its empty
\* forEach and returned: the message is cached and nobody has received anything
C22_Witness ==
    /\ ev.op = "publishReturn"
    /\ done.kind = "publish" /\ done.snap = {}
    /\ done.topic \in DOMAIN subscriptions
    /\ Len(subscriptions[done.topic]) = 0
    /\ done.topic \in DOMAIN messageHistory
    /\ messageHistory[done.topic] = done.message
    /\ \A s \in Subs : delivered[s] = <<>>

\* C23: getAllTopics() holds every topic on which subscribe or publish has been
\* called, and a topic once listed stays listed.
C23_KnownTopics ==
    [][/\ ev'.op \in {"subscribe", "publish"} => ev'.topic \in getAllTopics'
       /\ getAllTopics \subseteq getAllTopics'
      ]_vars

\* The part of it subscribe gives: every topic subscribe has been called on is
\* listed and stays listed, also after its last subscriber has left.
SubscribedTopicsKnown ==
    [][/\ ev'.op = "subscribe" => ev'.topic \in getAllTopics'
       /\ getAllTopics \subseteq getAllTopics'
      ]_vars

\* the subscribers that have subscribed to T and not unsubscribed since
Members(T) == {s \in Subs : <<T, s>> \in joined}

\* C24: getSubscribers(T) returns exactly the identities of the subscribers
\* now in T's set, each once, and nothing for a topic without registry entry;
\* the call leaves registry (no entry is created), cache and histories as
\* they are.
C24_GetSubscribersRead ==
    [][ev'.op = "getSubscribers" =>
          LET T == ev'.topic
          IN  /\ Range(ev'.result) = Members(T)
              /\ Len(ev'.result) = Cardinality(Members(T))
              /\ T \notin DOMAIN subscriptions =>
                     /\ ev'.result = <<>>
                     /\ T \notin DOMAIN subscriptions'
              /\ subscriptions' = subscriptions
              /\ messageHistory' = messageHistory
              /\ receivedMessages' = receivedMessages
      ]_vars

\* a callback running inside a fan-out has called getSubscribers on a topic
\* with two subscribers, while the other topic has no registry entry
C24_Witness ==
    /\ ev.op = "getSubscribers"
    /\ Len(ev.result) = 2
    /\ Len(stack) > 0
    /\ DOMAIN subscriptions = {ev.topic}
    /\ \E s \in Subs : receivedMessages[s] # <<>>

\* C25: publish(T, m) changes the cached message of T only and no subscriber
\* set, and its fan-out invokes receive on members of T's set only, with
\* topic T: every other topic's set and cached message are unchanged and a
\* subscriber registered only on another topic receives nothing.
C25_TopicIsolation ==
    [][/\ ev'.op = "publish" =>
              LET T == ev'.topic
              IN  /\ subscriptions' = subscriptions
                  /\ delivered' = delivered
                  /\ receivedMessages' = receivedMessages
                  /\ DOMAIN messageHistory' = (DOMAIN messageHistory) \cup {T}
                  /\ \A U \in (DOMAIN messageHistory) \ {T} :
                         messageHistory'[U] = messageHistory[U]
       /\ ev'.op = "deliver" =>
              LET T == ev'.topic
                  s == ev'.sub
              IN  /\ stack[Len(stack)].topic = T
                  /\ s \in Range(getSubscribers(T))
                  /\ s \in Members(T)
                  /\ subscriptions' = subscriptions
                  /\ messageHistory' = messageHistory
                  /\ Last(delivered'[s]) = <<T, stack[Len(stack)].message>>
                  /\ \A o \in Subs \ {s} :
                         /\ delivered'[o] = delivered[o]
                         /\ receivedMessages'[o] = receivedMessages[o]
      ]_vars

\* a publish on T has returned after delivering to T's subscriber; the
\* subscriber registered only on U holds U's replayed message and nothing
\* else, and U's cached message is still the one published on U
C25_Witness ==
    \E s \in Subs, o \in Subs, U \in Topics :
        /\ ev.op = "publishReturn"
        /\ done.kind = "publish" /\ done.outcome = "returned"
        /\ U # done.topic
        /\ done.snap = {s} /\ done.got[s] = 1
        /\ Members(U) = {o} /\ Members(done.topic) = {s} /\ o # s
        /\ U \in DOMAIN messageHistory
        /\ messageHistory[U] # done.message
        /\ delivered[o] = <<(<<U, messageHistory[U]>>)>>
        /\ delivered[s] = <<(<<done.topic, done.message>>)>>

\* C26: a Subscriber holds one callback, the one of the last setUpdateCallback
\* call: that call replaces the callback and nothing else does; each receive
\* invokes the callback then held exactly once, with the topic and message
\* received, and with none held it only records the message.
C26_LastWriterWins ==
    [][/\ ev'.op = "setUpdateCallback" =>
              updateCallback' = [updateCallback EXCEPT ![ev'.sub] = ev'.fn]
       /\ ev'.op # "setUpdateCallback" => updateCallback' = updateCallback
       /\ \A s \in Subs :
              Len(delivered'[s]) > Len(delivered[s]) =>
                  LET rec == Last(delivered'[s])
                  IN  /\ Last(receivedMessages'[s]) = [topic |-> rec[1], message |-> rec[2]]
                      /\ IF updateCallback[s] = NULL
                         THEN Len(stack') = Len(stack)
                         ELSE /\ Len(stack') = Len(stack) + 1
                              /\ Last(stack').kind = "callback"
                              /\ Last(stack').sub = s
                              /\ Last(stack').fn = updateCallback[s]
                              /\ Last(stack').topic = rec[1]
                              /\ Last(stack').message = rec[2]
      ]_vars

\* callback f of a subscriber, while running, was replaced by g, and a later
\* receive on that subscriber has invoked g
C26_Witness ==
    \E i \in 1..Len(stack) :
        /\ stack[i].kind = "callback"
        /\ stack[i].fn = "f"
        /\ Last(stack).kind = "callback"
        /\ Last(stack).sub = stack[i].sub
        /\ Last(stack).fn = "g"
        /\ updateCallback[stack[i].sub] = "g"

\* C27: receive appends the record of (T, m) and evicts before it invokes the
\* callback: in the state in which the callback starts, the history ends with
\* (T, m) and holds at most 50 records, and the callback was invoked once with
\* the same (T, m).
C27_RecordBeforeCallback ==
    [][\A s \in Subs :
           Len(delivered'[s]) > Len(delivered[s]) =>
               LET rec == Last(delivered'[s])
                   h == receivedMessages'[s]
               IN  /\ Len(h) <= HistoryLimit
                   /\ h[Len(h)] = [topic |-> rec[1], message |-> rec[2]]
                   /\ updateCallback[s] # NULL =>
                          /\ stack' = Append(stack, stack'[Len(stack')])
                          /\ stack'[Len(stack')].sub = s
                          /\ stack'[Len(stack')].topic = rec[1]
                          /\ stack'[Len(stack')].message = rec[2]
      ]_vars

\* the callback runs for a message received after the history was full: the
\* history holds the 50 most recent records and ends with that message
C27_Witness ==
    /\ Len(stack) = 1
    /\ stack[1].kind = "callback"
    /\ LET s == stack[1].sub
           h == receivedMessages[s]
       IN  /\ Len(delivered[s]) > HistoryLimit
           /\ Len(h) = HistoryLimit
           /\ h[HistoryLimit] = [topic |-> stack[1].topic, message |-> stack[1].message]
           /\ h[HistoryLimit].message = Len(delivered[s])
           /\ h[1].message = Len(delivered[s]) - HistoryLimit + 1

\* C28: an operation on one Publisher leaves every other Publisher's price,
\* timer and running/stopped state unchanged and publishes nothing on another
\* Publisher's topic.
C28_PublisherIndependence ==
    [][\A Q \in Publishers \ {pubEv'.pub} :
           /\ currentPrice'[Q] = currentPrice[Q]
           /\ updateInterval'[Q] = updateInterval[Q]
           /\ {tm \in timers' : tm.pub = Q} = {tm \in timers : tm.pub = Q}
           /\ cycle'[Q] = cycle[Q]
           /\ pubCount'[Q] = pubCount[Q]
           /\ Q \in DOMAIN lastPub' <=> Q \in DOMAIN lastPub
           /\ Q \in DOMAIN lastPub => lastPub'[Q] = lastPub[Q]
           /\ Q \in DOMAIN messageHistory' <=> Q \in DOMAIN messageHistory
           /\ Q \in DOMAIN messageHistory =>
                  /\ messageHistory'[Q] = messageHistory[Q]
                  /\ messageHistory[Q].symbol = Q
      ]_vars

\* a running Publisher was stopped while another one, at a different price,
\* keeps its timer
C28_Witness ==
    /\ pubEv.op = "stopPublishing"
    /\ pubEv.running
    /\ pubCount[pubEv.pub] >= 1
    /\ \E Q \in Publishers \ {pubEv.pub} :
           /\ cycle[Q] = "started"
           /\ updateInterval[Q] # NoTimer
           /\ [id |-> updateInterval[Q], pub |-> Q] \in timers
           /\ currentPrice[Q] # currentPrice[pubEv.pub]
           /\ messageHistory[Q].symbol = Q

\* C29: the messages a subscriber receives for T through fan-out arrive in the
\* order of the publish calls on T: no fan-out delivers to s after a publish
\* called later on T has delivered to s, re-entrant publishes included.
C29_PerSubscriberFifo ==
    [][ev'.op = "deliver" => ev'.sub \notin stack[Len(stack)].later]_vars

\* C30: a Subscriber's history changes only by a receive on that Subscriber
\* (one record appended, then eviction); unsubscribe, setUpdateCallback,
\* getSubscribers, getAllTopics, a subscribe on a topic without cached message
\* and a delivery to another subscriber leave it unchanged.
C30_HistoryOwnership ==
    [][/\ \A s \in Subs :
              receivedMessages'[s] # receivedMessages[s] =>
                  /\ ev'.op \in {"subscribe", "deliver"}
                  /\ ev'.sub = s
                  /\ Len(delivered'[s]) = Len(delivered[s]) + 1
                  /\ receivedMessages'[s] =
                         receive(receivedMessages[s], Last(delivered'[s])[1],
                                 Last(delivered'[s])[2])
       /\ ev'.op \in {"unsubscribe", "setUpdateCallback", "getSubscribers",
                      "getAllTopics"} =>
              receivedMessages' = receivedMessages
       /\ (ev'.op = "subscribe" /\ ev'.topic \notin DOMAIN messageHistory) =>
              receivedMessages' = receivedMessages
      ]_vars

\* two subscribers hold different histories, one of them of two records, and
\* a read, an unsubscribe or a setUpdateCallback has just been called
C30_Witness ==
    /\ ev.op \in {"unsubscribe", "setUpdateCallback", "getSubscribers", "getAllTopics"}
    /\ \E s \in Subs, o \in Subs :
           /\ Len(receivedMessages[s]) = 2
           /\ Len(receivedMessages[o]) = 1
           /\ receivedMessages[s][1] # receivedMessages[o][1]

ChangeMatches(p, q, d) ==
    LET diff == (q - p) * DeltaScale - p * d
    IN  diff < DeltaScale /\ diff > 0 - DeltaScale

\* C33: the change field of every message published by publishUpdate is the
\* percentage change from the previous current price to the new one, also
\* when the floor of 0.01 is applied.
C33_ChangeIsPriceChange ==
    pubEv.op = "publishUpdate" =>
        ChangeMatches(pubEv.from, currentPrice[pubEv.pub],
                      messageHistory[pubEv.pub].change)

\* The same where the floor is not applied.
ChangeIsPriceChangeAboveFloor ==
    (pubEv.op = "publishUpdate" /\ currentPrice[pubEv.pub] > Floor) =>
        ChangeMatches(pubEv.from, currentPrice[pubEv.pub],
                      messageHistory[pubEv.pub].change)

\* C34: whenever receive(T, m) is invoked on a subscriber, by fan-out or by
\* replay, the cache holds m for T at that moment.
C34_DeliveryMatchesCache ==
    [][\A s \in Subs :
           Len(delivered'[s]) > Len(delivered[s]) =>
               LET rec == Last(delivered'[s])
               IN  /\ rec[1] \in DOMAIN messageHistory'
                   /\ messageHistory'[rec[1]] = rec[2]
      ]_vars

\* C35: every publishUpdate and setPrice call (and so every start and tick)
\* makes exactly one broker.publish, on the Publisher's own topic, of a message
\* carrying its symbol and new price; the price changes in no other way, and
\* stopPublishing changes neither the price nor the cache.
C35_OwnTopicOnly ==
    [][LET P == pubEv'.pub
       IN  /\ pubEv'.op \in {"publishUpdate", "setPrice", "startPublishing", "tick"} =>
                  /\ pubCount' = [pubCount EXCEPT ![P] = @ + 1]
                  /\ ncalls' = ncalls + 1
                  /\ P \in DOMAIN lastPub'
                  /\ ev' = [op |-> "publish", topic |-> P, message |-> lastPub'[P]]
                  /\ lastPub'[P].symbol = P
                  /\ lastPub'[P].price = Cents(currentPrice'[P])
                  /\ DOMAIN lastPub' = (DOMAIN lastPub) \cup {P}
           /\ currentPrice' # currentPrice => pubCount'[P] = pubCount[P] + 1
           /\ pubEv'.op = "stopPublishing" =>
                  /\ currentPrice' = currentPrice
                  /\ messageHistory' = messageHistory
                  /\ pubCount' = pubCount
      ]_vars

\* setPrice was called on a Publisher that had been started and stopped
\* while the other Publisher has published too
C35_Witness ==
    /\ pubEv.op = "setPrice"
    /\ ev.topic = pubEv.pub
    /\ cycle[pubEv.pub] = "stopped"
    /\ pubCount[pubEv.pub] = 2
    /\ currentPrice[pubEv.pub] # InitialPrice
    /\ \E Q \in Publishers \ {pubEv.pub} :
           /\ pubCount[Q] = 1
           /\ messageHistory[Q].symbol = Q

Receives(P, s) == ev = [op |-> "deliver", topic |-> P, sub |-> s]

\* C31: a Publisher started and never stopped publishes infinitely often, and
\* every subscriber that stays subscribed to its topic receives its messages
\* again and again.
C31_PublishCycleLiveness ==
    \A P \in Publishers :
        /\ <>[](cycle[P] = "started") => []<>(ev.op = "publish" /\ ev.topic = P)
        /\ \A s \in Subs :
               <>[](cycle[P] = "started" /\ <<P, s>> \in joined) => []<>Receives(P, s)

\* The same where no subscriber has a callback attached.
PublishCycleLivenessNoCallbacks ==
    \A P \in Publishers : \A s \in Subs :
        <>[](/\ cycle[P] = "started"
             /\ <<P, s>> \in joined
             /\ \A o \in Subs : updateCallback[o] = NULL)
            => []<>Receives(P, s)

\* the Publishers with an active interval timer
ActivePublishers == {tm.pub : tm \in timers}

\* C37: in the demo application, after any sequence of Start, Stop and symbol
\* change events at most one Publisher has an active periodic cycle, and an
\* active one is the current publisher.
C37_OneActiveCycle ==
    /\ Cardinality(timers) <= 1
    /\ Cardinality(ActivePublishers) <= 1
    /\ \A P \in ActivePublishers : P = currentPublisher

\* the symbol was changed while publishing: the cycle moved to the new Publisher
C37_Witness ==
    /\ ev.op = "changeSymbol"
    /\ currentPublisher = "GOOGL"
    /\ "AAPL" \in DOMAIN messageHistory
    /\ updateInterval["AAPL"] = NoTimer
    /\ ActivePublishers = {"GOOGL"}
    /\ publisherState = "Publishing"

\* the subscribers the application created and removed again
Removed == {id \in DOMAIN receivedMessages : id # uiSubscriber /\ id \notin subscribers}

\* the topics whose set holds id
SetsHolding(id) == {t \in DOMAIN subscriptions : id \in Range(subscriptions[t])}

\* C38: a subscriber removed by handleRemoveSubscriber is in no topic's set and
\* never receives another message; handleAddSubscriber never gives out an id
\* again, so two live subscribers never share an id.
C38_RemovedStaysOut ==
    [][/\ \A id \in DOMAIN receivedMessages' :
              (id # uiSubscriber /\ id \notin subscribers')
                  => \A t \in DOMAIN subscriptions' : id \notin Range(subscriptions'[t])
       /\ \A id \in Removed :
              /\ id \in DOMAIN receivedMessages'
              /\ receivedMessages'[id] = receivedMessages[id]
              /\ id \notin subscribers'
       /\ subscriberCounter' # subscriberCounter
              => /\ subscriberCounter' = subscriberCounter + 1
                 /\ subscriberId(subscriberCounter') \notin DOMAIN receivedMessages
                 /\ subscribers' = subscribers \cup {subscriberId(subscriberCounter')}
       /\ Range(subscriberCreationOrder') = subscribers'
       /\ Len(subscriberCreationOrder') = Cardinality(subscribers')]_vars

\* sub-1 was removed after one message; sub-2, created later, went on receiving
C38_Witness ==
    /\ ev.op = "timer"
    /\ subscribers = {"sub-2"}
    /\ Removed = {"sub-1"}
    /\ SetsHolding("sub-1") = {}
    /\ Len(receivedMessages["sub-1"]) = 1
    /\ Len(receivedMessages["sub-2"]) = 2
    /\ SetsHolding("sub-2") # {}

====
